---- MODULE Spec2Model ----
(***************************************************************************)
(* Model of mpxpy's Conversion job handle (src/mpxpy/conversion.py): the   *)
(* completion poller wait_until_complete, the safe download                *)
(* download_output_to_local_path, conversion_status and download_output,   *)
(* and of the client's constructors pdf_new, image_new and file_batch_new  *)
(* (src/mpxpy/mathpix_client.py), run against a remote service whose       *)
(* answers and a local filesystem whose failures are chosen                *)
(* nondeterministically.                                                   *)
(***************************************************************************)
EXTENDS Integers, Sequences, FiniteSets, TLC

\* ------------------------------------------------------------------ bounds
MaxTimeout == 5      \* largest integer timeout passed to wait_until_complete
MaxChunks == 2       \* most chunks one artifact response is split into
MaxDownloads == 2    \* download_output_to_local_path calls in one behaviour
MaxCalls == 3        \* conversion_status calls in one behaviour
MaxMembers == 4      \* most member jobs of a file batch
PageSize == 2        \* most items the server puts on one page of a listing
MaxConcTimeout == 3  \* largest timeout passed to the concurrent pollers

\* ------------------------------------------------------- values and inputs
Formats == {"docx", "tex"}
FormatArgs == Formats \cup {"None"}
OverallStatus == {"queued", "processing", "completed", "error"}
FormatStatus == {"processing", "completed", "error"}
Bytes == {0, 1}

FormatMaps == UNION {[S -> FormatStatus] : S \in SUBSET Formats}
EmptyMap == [f \in {} |-> "processing"]

\* A status response body. has_map says whether the JSON object carries the
\* 'conversion_status' key at all; conversion_status is that key's value.
StatusSet ==
    {[status |-> o, has_map |-> TRUE, conversion_status |-> m] :
        o \in OverallStatus, m \in FormatMaps}
    \cup {[status |-> o, has_map |-> FALSE, conversion_status |-> EmptyMap] :
        o \in OverallStatus}
NoStatus == [status |-> "none", has_map |-> FALSE, conversion_status |-> EmptyMap]

\* Statuses of a job that was asked for docx only.
JobStates == {s \in StatusSet : DOMAIN s.conversion_status \subseteq {"docx"}}

\* Values a caller may pass as timeout. bool is a subclass of int in Python.
Timeouts ==
    [kind : {"int"}, val : (-1)..MaxTimeout]
    \cup [kind : {"bool"}, val : {0, 1}]
    \cup [kind : {"float"}, val : {2}]
    \cup [kind : {"str", "none"}, val : {0}]
NoTimeout == [kind |-> "none", val |-> 0]

\* Destination directories, as sequences of path segments ("" is <<>>).
Paths == {<<>>, <<"out", "dir">>}
Prefixes(p) == {SubSeq(p, 1, n) : n \in 1..Len(p)}

\* Chunks the transport's iter_content may yield (an empty chunk included).
Chunks == {<<>>} \cup {<<b>> : b \in Bytes}

\* What a GET gives back: a response, or the transport raising.
GetOutcomes == {"ok", "raise"}

\* A response of the transport: received says there is one, ok that its
\* status_code is 2xx, body is its json(), content its raw bytes.
Contents == {<<>>} \cup {<<b>> : b \in Bytes}
Response(ok, body, content) ==
    [received |-> TRUE, ok |-> ok, body |-> body, content |-> content]
NoResponse ==
    [received |-> FALSE, ok |-> FALSE, body |-> NoStatus, content |-> <<>>]

Return(v) == [kind |-> "return", val |-> v]
Raise(e) == [kind |-> "raise", val |-> e]
NoRet == [kind |-> "none", val |-> "none"]

FileKey(path, id, fmt) == [dir |-> path, id |-> id, fmt |-> fmt]
NoFile == [exists |-> FALSE, data |-> <<>>]
NoKey == [dir |-> <<>>, id |-> "", fmt |-> ""]

\* ---- inputs of the client's constructors (mathpix_client.py)
ProductionApi == "https://api.mathpix.com"
ApiUrls == {ProductionApi, "https://staging.example"}

\* file_path and file_url arguments; "None" is Python's None, "" the empty
\* string. Of the paths only doc.pdf names a file on disk.
PathArgs == {"None", "", "doc.pdf", "missing.pdf"}
UrlArgs == {"None", "", "http://host/doc.pdf"}
ExistingFiles == {"doc.pdf"}

\* formats: omitted (None), or a list of format names
FormatsArgs ==
    {[given |-> FALSE, val |-> <<>>]}
    \cup {[given |-> TRUE, val |-> l] :
             l \in {<<"text">>, <<"text", "data">>}}

\* a threshold: omitted (None), or a number
ThresholdArgs ==
    {[given |-> FALSE, val |-> 0]}
    \cup {[given |-> TRUE, val |-> v] : v \in {-1, 1, 2}}
NoThreshold == [given |-> FALSE, val |-> 0]

\* What a POST gives back: a 2xx response, a non-2xx one, or the transport
\* raising.
PostOutcomes == {"ok", "http_error", "raise"}

NoArgs ==
    [file_path |-> "None", file_url |-> "None", webhook |-> FALSE,
     file_batch_uuid |-> FALSE, formats |-> [given |-> FALSE, val |-> <<>>],
     confidence_threshold |-> NoThreshold,
     confidence_rate_threshold |-> NoThreshold,
     auto_rotate_confidence_threshold |-> NoThreshold]

\* ---- a page of a batch listing; a cursor is a position in the listing and
\* 0 stands for None
NoPage == [files |-> <<>>, has_more |-> FALSE, cursor |-> 0]

\* ---- two job handles polled at the same time: what the caller of each
\* wait_until_complete sees (position, argument, outcome, statuses fetched)
\* and the locals of a running call
Handles == {1, 2}
NoCall == [pc |-> "idle", timeout |-> NoTimeout, ret |-> NoRet, seen |-> <<>>]
NoFrame == [timeout |-> NoTimeout, attempt |-> 0, completed |-> FALSE]

VARIABLES
    conversion_id, conversion_formats,   \* the handle's fields
    pc, op, ret,                         \* position, operation, its outcome
    timeout, attempt, completed,         \* wait_until_complete's locals
    conversion_status,                   \* the status the poller fetched last
    fetches, sleeps,                     \* status GETs and sleeps of this call
    artifact_gets,                       \* artifact GETs of this call
    dirs, files,                         \* the local filesystem
    format_arg, path_arg,                \* download arguments
    file_path, handle_open, written,     \* download's write loop
    write_error,                         \* an exception was raised inside the try
    streamed,                            \* bytes the artifact stream has yielded
    status_info,                         \* status_info of the error raised last
    downloads,                           \* download calls made so far
    status_calls, status_gets,           \* conversion_status calls, their GETs
    response,                            \* the response the last GET gave
    returned, previous,                  \* status returned last, and before it
    job_state,                           \* the job on the server at download_output
    output,                              \* bytes download_output returned
    api_url,                             \* the client's auth.api_url
    args,                                \* arguments of the client call
    posts, handles,                      \* POSTs and handles made by that call
    members,                             \* the batch's member jobs on the server
    cursor, files_list,                  \* locals of the enumeration loop
    visited,                             \* members the loop has processed
    calls,                               \* per handle: a concurrent wait call
    frames                               \* the locals of those calls

vars == <<conversion_id, conversion_formats, pc, op, ret, timeout, attempt,
          completed, conversion_status, fetches, sleeps, artifact_gets, dirs,
          files, format_arg, path_arg, file_path, handle_open, written,
          write_error, streamed, status_info, downloads, status_calls,
          status_gets,
          response, returned, previous, job_state, output, api_url, args,
          posts, handles, members, cursor, files_list, visited, calls,
          frames>>

handleVars == <<conversion_id, conversion_formats>>
waitVars == <<timeout, attempt, completed, sleeps>>
fsVars == <<dirs, files>>
downloadVars == <<artifact_gets, format_arg, path_arg, file_path,
                  handle_open, written, write_error, streamed, status_info,
                  downloads>>
fetchVars == <<status_calls, status_gets, response, returned, previous,
               job_state, output>>
clientVars == <<api_url, args, posts, handles>>
batchVars == <<members, cursor, files_list, visited>>
concVars == <<calls, frames>>

AllKeys == {FileKey(p, "job", f) : p \in Paths, f \in Formats}

Init ==
    /\ conversion_id = "job"
    /\ conversion_formats \in SUBSET Formats
    /\ pc = "idle" /\ op = "none" /\ ret = NoRet
    /\ timeout = NoTimeout /\ attempt = 0 /\ completed = FALSE
    /\ conversion_status = NoStatus
    /\ fetches = 0 /\ sleeps = 0 /\ artifact_gets = 0
    /\ dirs = {<<>>}
    /\ files = [k \in AllKeys |-> NoFile]
    /\ format_arg = "None" /\ path_arg = <<>>
    /\ file_path = NoKey /\ handle_open = FALSE
    /\ written = 0 /\ write_error = FALSE
    /\ streamed = <<>>
    /\ status_info = NoStatus
    /\ downloads = 0
    /\ status_calls = 0 /\ status_gets = 0
    /\ response = NoResponse
    /\ returned = NoStatus /\ previous = NoStatus
    /\ job_state = NoStatus
    /\ output = <<>>
    /\ api_url \in ApiUrls
    /\ args = NoArgs
    /\ posts = 0 /\ handles = 0
    /\ members = <<>>
    /\ cursor = 0
    /\ files_list = NoPage
    /\ visited = <<>>
    /\ calls = [h \in Handles |-> NoCall]
    /\ frames = [h \in Handles |-> NoFrame]

\* ------------------------------------------------- wait_until_complete

\* conversion.py:52  not isinstance(timeout, int) or timeout <= 0
InvalidTimeoutOffByOne(t) == t.kind \notin {"int", "bool"} \/ t.val < 0
InvalidTimeout(t) == t.kind \notin {"int", "bool"} \/ t.val <= 0

\* conversion.py:57  attempt < timeout and not completed
LoopConditionInclusive(a, t, c) == a <= t.val /\ ~c
LoopCondition(a, t, c) == a < t.val /\ ~c

\* conversion.py:61-62  every reported format is 'completed' or 'error'
AllFormatsCompletedOnly(s) ==
    \A f \in DOMAIN s.conversion_status : s.conversion_status[f] = "completed"
AllFormatsDone(s) ==
    \A f \in DOMAIN s.conversion_status :
        s.conversion_status[f] = "completed" \/ s.conversion_status[f] = "error"

\* conversion.py:60-68  what one loop body does with the fetched status:
\* "success" (completed = True; break), "failure" (break), "continue"
\* (sleep, attempt += 1) or "KeyError" (no 'conversion_status' key to read).
CheckStatusFormatsOnly(s) ==
    IF ~s.has_map THEN "KeyError"
    ELSE IF AllFormatsDone(s) THEN "success"
    ELSE IF s.status = "error" THEN "failure"
    ELSE "continue"
CheckStatusMapFirst(s) ==
    IF ~s.has_map THEN "KeyError"
    ELSE IF s.status = "completed" /\ AllFormatsDone(s) THEN "success"
    ELSE IF s.status = "error" THEN "failure"
    ELSE "continue"
CheckStatusNoErrorBranch(s) ==
    IF s.status = "completed"
    THEN IF ~s.has_map THEN "KeyError"
         ELSE IF AllFormatsDone(s) THEN "success" ELSE "continue"
    ELSE "continue"
CheckStatus(s) ==
    IF s.status = "completed"
    THEN IF ~s.has_map THEN "KeyError"
         ELSE IF AllFormatsDone(s) THEN "success" ELSE "continue"
    ELSE IF s.status = "error" THEN "failure"
    ELSE "continue"

\* conversion.py:83-84 (called from 59 and 112)  the status s just fetched
\* is returned to the caller; nothing of it is stored on self
CacheStatus(s) ==
    /\ conversion_id' = conversion_id
    /\ conversion_formats' = DOMAIN s.conversion_status
StoreStatus(s) == UNCHANGED handleVars

\* conversion.py:60-70  time.sleep(1) is the first statement after the if /
\* elif whose branches break: it runs when neither branch was taken
SleepsEveryIteration(n, outcome) == n + 1
SleepsAfter(n, outcome) == IF outcome = "continue" THEN n + 1 ELSE n

\* conversion.py:57-59  nothing in the loop catches: an exception of the
\* fetch at line 59 leaves wait_until_complete ("raise"), the attempt is
\* not counted as a failed one and retried ("continue")
FetchExceptionRetried == "continue"
OnFetchException == "raise"

\* conversion.py:41-56  the call: validation, then the loop's initial state
WaitCall(t) ==
    /\ pc = "idle"
    /\ op' = "wait_until_complete"
    /\ timeout' = t
    /\ fetches' = 0 /\ sleeps' = 0
    /\ conversion_status' = NoStatus
    /\ response' = NoResponse
    /\ IF InvalidTimeout(t)
       THEN /\ ret' = Raise("ValueError")
            /\ pc' = "idle"
            /\ UNCHANGED <<attempt, completed>>
       ELSE /\ ret' = NoRet
            /\ pc' = "polling"
            /\ attempt' = 1
            /\ completed' = FALSE
    /\ UNCHANGED <<handleVars, fsVars, downloadVars, status_calls,
                   status_gets, returned, previous, job_state, output,
                   clientVars, batchVars,
                   concVars>>

\* conversion.py:57-70 (and 71-73 after a break)  one iteration of the loop
Poll(g, s) ==
    /\ pc = "polling"
    /\ LoopCondition(attempt, timeout, completed)
    /\ fetches' = fetches + 1
    /\ IF g = "raise"
       THEN \* 59: the GET raises
            /\ response' = NoResponse
            /\ IF OnFetchException = "raise"
               THEN /\ ret' = Raise("RemoteError")
                    /\ pc' = "idle"
                    /\ UNCHANGED <<attempt, sleeps>>
               ELSE /\ sleeps' = sleeps + 1
                    /\ attempt' = attempt + 1
                    /\ UNCHANGED <<ret, pc>>
            /\ UNCHANGED <<handleVars, conversion_status, completed>>
       ELSE /\ response' = Response(TRUE, s, <<>>)
            /\ conversion_status' = s
            /\ StoreStatus(s)
            /\ sleeps' = SleepsAfter(sleeps, CheckStatus(s))
            /\ CASE CheckStatus(s) = "success" ->
                        /\ completed' = TRUE
                        /\ ret' = Return("True")
                        /\ pc' = "idle"
                        /\ UNCHANGED attempt
                 [] CheckStatus(s) = "failure" ->
                        /\ ret' = Return("False")
                        /\ pc' = "idle"
                        /\ UNCHANGED <<attempt, completed>>
                 [] CheckStatus(s) = "KeyError" ->
                        /\ ret' = Raise("KeyError")
                        /\ pc' = "idle"
                        /\ UNCHANGED <<attempt, completed>>
                 [] OTHER ->
                        /\ attempt' = attempt + 1
                        /\ UNCHANGED <<ret, pc, completed>>
    /\ UNCHANGED <<op, timeout, fsVars, downloadVars, status_calls,
                   status_gets, returned, previous, job_state, output,
                   clientVars, batchVars,
                   concVars>>

\* conversion.py:57, 71-73  the loop condition fails: return completed
WaitTimeout ==
    /\ pc = "polling"
    /\ ~LoopCondition(attempt, timeout, completed)
    /\ ret' = Return(IF completed THEN "True" ELSE "False")
    /\ pc' = "idle"
    /\ UNCHANGED <<handleVars, op, timeout, attempt, completed,
                   conversion_status, fetches, sleeps, fsVars, downloadVars,
                   fetchVars, clientVars, batchVars,
                   concVars>>

WaitNext ==
    \/ \E t \in Timeouts : WaitCall(t)
    \/ \E g \in GetOutcomes, s \in StatusSet : Poll(g, s)
    \/ WaitTimeout

WaitSpec == Init /\ [][WaitNext]_vars

\* The calling thread keeps running: a loop iteration whose fetch returns
\* or raises completes, and so does the return after the loop.
WaitFairSpec ==
    /\ WaitSpec
    /\ WF_vars(\E g \in GetOutcomes, s \in StatusSet : Poll(g, s))
    /\ WF_vars(WaitTimeout)

\* ------------------------------------------- download_output_to_local_path

\* conversion.py:113  the guard of the safe path; a subscript with a format
\* the map does not hold raises KeyError before the comparison is made.
DownloadCheck(s, fmt) ==
    IF ~s.has_map THEN "ConversionIncompleteError"
    ELSE IF fmt \notin DOMAIN s.conversion_status THEN "KeyError"
    ELSE IF s.conversion_status[fmt] # "completed" THEN "ConversionIncompleteError"
    ELSE "ok"

\* conversion.py:117-118  os.makedirs(path, exist_ok=True)
MakeDirsLeafOnly(d, path) == IF path = <<>> THEN d ELSE d \cup {path}
MakeDirs(d, path) == IF path = <<>> THEN d ELSE d \cup Prefixes(path)

\* conversion.py:119  os.path.join(path, f'{self.conversion_id}.{conversion_format}')
FilePath(path, id, fmt) == FileKey(path, id, fmt)

\* conversion.py:123-124  if chunk: f.write(chunk)
WriteChunkReplacing(data, chunk) == IF chunk # <<>> THEN chunk ELSE data
WriteChunkData(data, chunk) == IF chunk # <<>> THEN data \o chunk ELSE data

\* conversion.py:121  open(file_path, 'wb'): the file is created, or emptied
\* if it exists
OpenForAppend(f) == [exists |-> TRUE, data |-> f.data]
OpenForWrite(f) == [exists |-> TRUE, data |-> <<>>]

\* conversion.py:121  with open(...) as f: the file is closed when the block
\* is left, by its end or by an exception
LeftOpen(open) == open
CloseOnExit(open) == FALSE

\* conversion.py:125-126  except Exception: raise FilesystemError(...)
ExceptionSwallowed == Return("file_path")
OnWriteException == Raise("FilesystemError")

\* errors.py:9-11  ConversionIncompleteError(message, status_info=None) keeps
\* status_info or {} (NoStatus stands for the empty dict).
ConversionIncompleteError(info) == info

\* conversion.py:114  raise ConversionIncompleteError("Conversion not complete"):
\* the status s fetched at line 112 is not handed to the error.
RaisedStatusInfo(s) == ConversionIncompleteError(NoStatus)

\* The call ends here with outcome r; nothing on disk is touched.
DownloadEnds(r) ==
    /\ ret' = r
    /\ pc' = "idle"
    /\ write_error' = FALSE
    /\ UNCHANGED <<fsVars, file_path, handle_open, written>>

\* What every download call does first (conversion.py:111-112).
DownloadBegins(fmt, path) ==
    /\ pc = "idle"
    /\ downloads < MaxDownloads
    /\ downloads' = downloads + 1
    /\ op' = "download_output_to_local_path"
    /\ format_arg' = fmt /\ path_arg' = path
    /\ fetches' = 1
    /\ streamed' = <<>>
    /\ UNCHANGED <<waitVars, conversion_status, fetchVars,
                   clientVars, batchVars,
                   concVars>>

\* conversion.py:112  the status GET raises: nothing else happens
DownloadStatusFails(fmt, path) ==
    /\ DownloadBegins(fmt, path)
    /\ UNCHANGED handleVars
    /\ artifact_gets' = 0
    /\ status_info' = NoStatus
    /\ DownloadEnds(Raise("RemoteError"))

\* conversion.py:101-121  the call, with s the status its GET returned, up to
\* the opening of the destination file
DownloadCall(fmt, path, s) ==
    /\ DownloadBegins(fmt, path)
    /\ StoreStatus(s)
    /\ IF DownloadCheck(s, fmt) # "ok"
       THEN \* 113-114: the guard raises
            /\ artifact_gets' = 0
            /\ status_info' = IF DownloadCheck(s, fmt) = "ConversionIncompleteError"
                              THEN RaisedStatusInfo(s) ELSE NoStatus
            /\ DownloadEnds(Raise(DownloadCheck(s, fmt)))
       ELSE /\ artifact_gets' = 1
            /\ status_info' = NoStatus
            /\ \/ \* 116: the artifact GET raises
                  DownloadEnds(Raise("RemoteError"))
               \/ \* 118: makedirs raises
                  /\ path # <<>>
                  /\ DownloadEnds(Raise("OSError"))
               \/ \* 121: open raises inside the try
                  /\ dirs' = MakeDirs(dirs, path)
                  /\ write_error' = TRUE
                  /\ ret' = OnWriteException
                  /\ pc' = "idle"
                  /\ UNCHANGED <<files, file_path, handle_open, written>>
               \/ \* 121: the file is opened 'wb': created or truncated
                  /\ dirs' = MakeDirs(dirs, path)
                  /\ file_path' = FilePath(path, conversion_id, fmt)
                  /\ files' = [files EXCEPT
                         ![FilePath(path, conversion_id, fmt)] = OpenForWrite(@)]
                  /\ handle_open' = TRUE
                  /\ written' = 0
                  /\ write_error' = FALSE
                  /\ ret' = NoRet
                  /\ pc' = "writing"

downloadFrame == <<handleVars, waitVars, op, conversion_status, fetches,
                   artifact_gets, format_arg, path_arg, file_path,
                   status_info, downloads, fetchVars, clientVars, batchVars,
                   concVars>>

\* conversion.py:122-124  the stream yields one more chunk
WriteChunk(chunk) ==
    /\ pc = "writing"
    /\ written < MaxChunks
    /\ files' = [files EXCEPT ![file_path].data = WriteChunkData(@, chunk)]
    /\ streamed' = streamed \o chunk
    /\ written' = written + 1
    /\ UNCHANGED <<downloadFrame, dirs, pc, ret, handle_open, write_error>>

\* conversion.py:120-126  iter_content, write or the closing flush raises;
\* the with block closes the file, the except clause converts the exception
WriteRaises ==
    /\ pc = "writing"
    /\ handle_open' = CloseOnExit(handle_open)
    /\ write_error' = TRUE
    /\ ret' = OnWriteException
    /\ pc' = "idle"
    /\ UNCHANGED <<downloadFrame, fsVars, written, streamed>>

\* conversion.py:121-128  the stream is exhausted: close, return file_path
WriteDone ==
    /\ pc = "writing"
    /\ handle_open' = CloseOnExit(handle_open)
    /\ ret' = Return("file_path")
    /\ pc' = "idle"
    /\ UNCHANGED <<downloadFrame, fsVars, written, write_error, streamed>>

\* conversion.py:113 reads only the per-format map of the fetched status, so
\* one overall status stands for all of them here.
DownloadStatuses == {s \in StatusSet : s.status = "processing"}

DownloadNext ==
    \/ \E fmt \in FormatArgs, path \in Paths : DownloadStatusFails(fmt, path)
    \/ \E fmt \in FormatArgs, path \in Paths, s \in DownloadStatuses :
           DownloadCall(fmt, path, s)
    \/ \E chunk \in Chunks : WriteChunk(chunk)
    \/ WriteRaises
    \/ WriteDone

\* The download never reads the handle's conversion_formats.
DownloadInit == Init /\ conversion_formats = {"docx"} /\ api_url = ProductionApi

DownloadSpec == DownloadInit /\ [][DownloadNext]_vars

\* Downloads of one format of the job into one directory, again and again,
\* the format being completed on the server.
RepeatStatus ==
    [status |-> "completed", has_map |-> TRUE,
     conversion_status |-> [f \in {"docx"} |-> "completed"]]

RepeatNext ==
    \/ DownloadCall("docx", <<"out", "dir">>, RepeatStatus)
    \/ \E chunk \in Chunks : WriteChunk(chunk)
    \/ WriteRaises
    \/ WriteDone

RepeatSpec == DownloadInit /\ [][RepeatNext]_vars

\* ------------------------------------- conversion_status, download_output

\* conversion.py:83-84  response = get(...); return response.json(): the
\* value returned is the body of the response just received.
StatusResultCached(cached, fresh) == IF cached # NoStatus THEN cached ELSE fresh
StatusResult(cached, fresh) == fresh

fetchFrame == <<waitVars, conversion_status, fsVars, path_arg,
                file_path, handle_open, written, write_error, streamed,
                status_info,
                downloads, clientVars, batchVars,
                   concVars>>

\* conversion.py:75-84  conversion_status(): one GET; its status_code is not
\* looked at, its json() is returned
StatusCall(g, ok, s) ==
    /\ pc = "idle"
    /\ status_calls < MaxCalls
    /\ status_calls' = status_calls + 1
    /\ status_gets' = status_gets + 1
    /\ op' = "conversion_status"
    /\ fetches' = 1 /\ artifact_gets' = 0
    /\ previous' = returned
    /\ IF g = "raise"
       THEN /\ response' = NoResponse
            /\ ret' = Raise("RemoteError")
            /\ UNCHANGED <<handleVars, returned>>
       ELSE /\ response' = Response(ok, s, <<>>)
            /\ StoreStatus(s)
            /\ returned' = StatusResult(returned, s)
            /\ ret' = Return("JobStatus")
    /\ UNCHANGED <<fetchFrame, pc, format_arg, job_state, output>>

\* conversion.py:96-99  download_output makes no check of the job's status
\* before its GET.
OutputCheckGuarded(s, fmt) == DownloadCheck(s, fmt)
OutputCheck(s, fmt) == "ok"

\* conversion.py:86-99  download_output(conversion_format) while the job on
\* the server is in state s: one GET for the artifact, response.content returned
DownloadOutput(fmt, g, ok, s, content) ==
    /\ pc = "idle"
    /\ op' = "download_output"
    /\ format_arg' = fmt
    /\ job_state' = s
    /\ IF OutputCheck(s, fmt) # "ok"
       THEN /\ fetches' = 1 /\ artifact_gets' = 0
            /\ response' = NoResponse
            /\ output' = <<>>
            /\ ret' = Raise(OutputCheck(s, fmt))
       ELSE /\ fetches' = 0 /\ artifact_gets' = 1
            /\ IF g = "raise"
               THEN /\ response' = NoResponse
                    /\ output' = <<>>
                    /\ ret' = Raise("RemoteError")
               ELSE /\ response' = Response(ok, NoStatus, content)
                    /\ output' = content
                    /\ ret' = Return("bytes")
    /\ UNCHANGED <<handleVars, fetchFrame, pc, status_calls, status_gets,
                   returned, previous>>

StatusNext ==
    \E g \in GetOutcomes, ok \in BOOLEAN, s \in JobStates : StatusCall(g, ok, s)

OutputNext ==
    \E fmt \in FormatArgs, g \in GetOutcomes, ok \in BOOLEAN,
       s \in StatusSet, content \in Contents :
        DownloadOutput(fmt, g, ok, s, content)

\* Neither operation reads the handle's conversion_formats, and neither
\* keeps anything on the handle for the other to read.
FetchInit == Init /\ conversion_formats = {"docx"} /\ api_url = ProductionApi

StatusSpec == FetchInit /\ [][StatusNext]_vars
OutputSpec == FetchInit /\ [][OutputNext]_vars

\* ------------------------------------- pdf_new, image_new, file_batch_new

\* Python truthiness of a string argument: None and '' are falsy
Truthy(x) == x # "None" /\ x # ""

\* mathpix_client.py:216 (and 115)  neither is given, or both are
NeitherOnly(path, url) == path = "None" /\ url = "None"
NotExactlyOne(path, url) ==
    \/ (path = "None" /\ url = "None")
    \/ (path # "None" /\ url # "None")

\* mathpix_client.py:202-218  what pdf_new rejects before doing anything, in
\* the order of the checks
PdfNewRejectionValidationFirst(api, path, url, hook, batch) ==
    IF NotExactlyOne(path, url) THEN "ValidationError"
    ELSE IF api = ProductionApi /\ hook THEN "NotImplementedError"
    ELSE IF api = ProductionApi /\ batch THEN "NotImplementedError"
    ELSE "ok"
PdfNewRejection(api, path, url, hook, batch) ==
    IF api = ProductionApi /\ hook THEN "NotImplementedError"
    ELSE IF api = ProductionApi /\ batch THEN "NotImplementedError"
    ELSE IF NotExactlyOne(path, url) THEN "ValidationError"
    ELSE "ok"

\* mathpix_client.py:241-242  not path.is_file()
FileMissingIgnored(path) == FALSE
FileMissing(path) == path \notin ExistingFiles

clientFrame == <<handleVars, waitVars, conversion_status, fetches, sleeps,
                 fsVars, downloadVars, fetchVars, api_url, batchVars,
                   concVars>>

\* mathpix_client.py:247-266 (268-290, 315-323)  the POST, raise_for_status
\* and the construction of the handle; a RequestException becomes
\* MathpixClientError
Post(p, handle) ==
    /\ posts' = 1
    /\ IF p = "ok"
       THEN ret' = Return(handle) /\ handles' = 1
       ELSE ret' = Raise("MathpixClientError") /\ handles' = 0

\* The call ends with exception e before any request.
Rejected(e) == ret' = Raise(e) /\ posts' = 0 /\ handles' = 0

\* mathpix_client.py:168-290  pdf_new; hook says that one of the webhook
\* arguments is truthy, batch that file_batch_uuid is
PdfNew(path, url, hook, batch, p) ==
    /\ pc = "idle"
    /\ op' = "pdf_new"
    /\ args' = [NoArgs EXCEPT !.file_path = path, !.file_url = url,
                              !.webhook = hook, !.file_batch_uuid = batch]
    /\ IF PdfNewRejection(api_url, path, url, hook, batch) # "ok"
       THEN Rejected(PdfNewRejection(api_url, path, url, hook, batch))
       ELSE IF Truthy(path)
            THEN IF FileMissing(path)
                 THEN Rejected("FileNotFoundError")
                 ELSE Post(p, "Pdf")
            ELSE \* 267-269: options["url"] = file_url, whatever it is
                 Post(p, "Pdf")
    /\ UNCHANGED <<clientFrame, pc>>

\* mathpix_client.py:121-129  a given threshold below 0 or above 1
ThresholdOutOfRange(th) == th.given /\ (th.val < 0 \/ th.val > 1)

\* mathpix_client.py:130-166  image_options = {callback: callback, formats:
\* formats, ...}: the keys are the arguments' values. formats, a list, is not
\* hashable, so building the dict raises TypeError.
ImageOptions(formats) == "TypeError"

\* mathpix_client.py:115-166  image_new's outcome
ImageNewOutcome(path, url, formats, ct, crt, arct) ==
    IF NotExactlyOne(path, url) THEN "ValidationError"
    ELSE IF ~formats.given THEN "TypeError"      \* 118: len(None)
    ELSE IF Len(formats.val) # 1 THEN "ValidationError"
    ELSE IF ThresholdOutOfRange(ct) THEN "ValidationError"
    ELSE IF ThresholdOutOfRange(crt) THEN "ValidationError"
    ELSE IF ThresholdOutOfRange(arct) THEN "ValidationError"
    ELSE ImageOptions(formats)

\* mathpix_client.py:40-166  image_new; it issues no request itself
ImageNew(path, url, formats, ct, crt, arct) ==
    /\ pc = "idle"
    /\ op' = "image_new"
    /\ args' = [NoArgs EXCEPT !.file_path = path, !.file_url = url,
                              !.formats = formats,
                              !.confidence_threshold = ct,
                              !.confidence_rate_threshold = crt,
                              !.auto_rotate_confidence_threshold = arct]
    /\ IF ImageNewOutcome(path, url, formats, ct, crt, arct) # "ok"
       THEN Rejected(ImageNewOutcome(path, url, formats, ct, crt, arct))
       ELSE ret' = Return("Image") /\ posts' = 0 /\ handles' = 1
    /\ UNCHANGED <<clientFrame, pc>>

\* mathpix_client.py:292-323  file_batch_new
FileBatchNew(p) ==
    /\ pc = "idle"
    /\ op' = "file_batch_new"
    /\ args' = NoArgs
    /\ IF api_url = ProductionApi
       THEN Rejected("NotImplementedError")
       ELSE Post(p, "FileBatch")
    /\ UNCHANGED <<clientFrame, pc>>

ClientNext ==
    \/ \E path \in PathArgs, url \in UrlArgs, hook \in BOOLEAN,
          batch \in BOOLEAN, p \in PostOutcomes :
           PdfNew(path, url, hook, batch, p)
    \/ \E path \in PathArgs, url \in UrlArgs, formats \in FormatsArgs,
          ct \in ThresholdArgs, crt \in ThresholdArgs, arct \in ThresholdArgs :
           ImageNew(path, url, formats, ct, crt, arct)
    \/ \E p \in PostOutcomes : FileBatchNew(p)

ClientInit == Init /\ conversion_formats = {"docx"}

ClientSpec == ClientInit /\ [][ClientNext]_vars

\* ------------------------------------------ enumeration of a file batch

\* Ids of the jobs a batch may hold, and the listings the server may keep:
\* sequences of distinct ids.
MemberIds == 1..MaxMembers
MemberLists ==
    {m \in UNION {[1..n -> MemberIds] : n \in 0..MaxMembers} :
        \A i, j \in DOMAIN m : i # j => m[i] # m[j]}

\* file_batch.files(cursor): the page that starts at cursor and holds n items
FilesPage(m, c, n) ==
    [files |-> SubSeq(m, c + 1, c + n),
     has_more |-> c + n < Len(m),
     cursor |-> c + n]

\* run_file_batch_conversion.py:42-45  the cursor of the next call
CursorNotThreaded(c, page) == c
NextCursor(c, page) == page.cursor

batchFrame == <<handleVars, waitVars, conversion_status, fetches, sleeps,
                fsVars, downloadVars, fetchVars, clientVars, concVars>>

\* run_file_batch_conversion.py:11-35  the batch is created and filled with
\* the members m; cursor = None
BatchStart(m) ==
    /\ pc = "idle"
    /\ op' = "process_pdf_folder"
    /\ members' = m
    /\ cursor' = 0
    /\ files_list' = NoPage
    /\ visited' = <<>>
    /\ ret' = NoRet
    /\ pc' = "listing"
    /\ UNCHANGED batchFrame

\* run_file_batch_conversion.py:38  files_list = file_batch.files(cursor=cursor)
BatchFiles(g, n) ==
    /\ pc = "listing"
    /\ IF g = "raise"
       THEN /\ ret' = Raise("RemoteError")
            /\ pc' = "idle"
            /\ UNCHANGED files_list
       ELSE /\ n <= Len(members) - cursor
            /\ (n = 0 => cursor = Len(members))
            /\ files_list' = FilesPage(members, cursor, n)
            /\ pc' = "items"
            /\ UNCHANGED ret
    /\ UNCHANGED <<batchFrame, op, members, cursor, visited>>

\* run_file_batch_conversion.py:39-40  one iteration of the for loop
BatchVisit ==
    /\ pc = "items"
    /\ files_list.files # <<>>
    /\ visited' = Append(visited, Head(files_list.files))
    /\ files_list' = [files_list EXCEPT !.files = Tail(@)]
    /\ UNCHANGED <<batchFrame, op, pc, ret, members, cursor>>

\* run_file_batch_conversion.py:42-45  the page is processed: break, or go on
\* with the returned cursor
BatchNextPage ==
    /\ pc = "items"
    /\ files_list.files = <<>>
    /\ IF ~files_list.has_more
       THEN /\ ret' = Return("None")
            /\ pc' = "idle"
            /\ UNCHANGED cursor
       ELSE /\ cursor' = NextCursor(cursor, files_list)
            /\ pc' = "listing"
            /\ UNCHANGED ret
    /\ UNCHANGED <<batchFrame, op, members, files_list, visited>>

BatchNext ==
    \/ \E m \in MemberLists : BatchStart(m)
    \/ \E g \in GetOutcomes, n \in 0..PageSize : BatchFiles(g, n)
    \/ BatchVisit
    \/ BatchNextPage

BatchInit == Init /\ conversion_formats = {"docx"} /\ api_url = ProductionApi

BatchSpec == BatchInit /\ [][BatchNext]_vars

\* --------------------------- wait_until_complete on two handles at once

\* Statuses the two jobs may report, one for each way the loop body goes
\* on (two that continue, success, hard failure, KeyError).
ConcStatuses ==
    {[status |-> "processing", has_map |-> TRUE,
      conversion_status |-> [f \in {"docx"} |-> "processing"]],
     [status |-> "completed", has_map |-> TRUE,
      conversion_status |-> [f \in {"docx"} |-> "processing"]],
     [status |-> "completed", has_map |-> TRUE,
      conversion_status |-> [f \in {"docx"} |-> "completed"]],
     [status |-> "error", has_map |-> FALSE, conversion_status |-> EmptyMap],
     [status |-> "completed", has_map |-> FALSE, conversion_status |-> EmptyMap]}

ConcTimeouts == [kind : {"int"}, val : 0..MaxConcTimeout]

\* conversion.py:55-57  timeout, attempt and completed are locals of the
\* call: each call on handle h has a frame of its own.
SharedFrame(h) == 1
Frame(h) == h

concFrame == <<handleVars, pc, op, ret, waitVars, conversion_status, fetches,
               fsVars, downloadVars, fetchVars, clientVars, batchVars>>

\* conversion.py:41-56  the call on handle h
ConcCall(h, t) ==
    /\ calls[h] = NoCall
    /\ IF InvalidTimeout(t)
       THEN /\ calls' = [calls EXCEPT ![h] =
                    [pc |-> "idle", timeout |-> t, ret |-> Raise("ValueError"),
                     seen |-> <<>>]]
            /\ UNCHANGED frames
       ELSE /\ calls' = [calls EXCEPT ![h] =
                    [pc |-> "polling", timeout |-> t, ret |-> NoRet,
                     seen |-> <<>>]]
            /\ frames' = [frames EXCEPT ![Frame(h)] =
                    [timeout |-> t, attempt |-> 1, completed |-> FALSE]]
    /\ UNCHANGED concFrame

\* conversion.py:57-70  one iteration of the loop of the call on handle h,
\* its job reporting s
ConcPoll(h, s) ==
    /\ calls[h].pc = "polling"
    /\ LoopCondition(frames[Frame(h)].attempt, frames[Frame(h)].timeout,
                     frames[Frame(h)].completed)
    /\ CASE CheckStatus(s) = "success" ->
              /\ frames' = [frames EXCEPT ![Frame(h)].completed = TRUE]
              /\ calls' = [calls EXCEPT ![h].seen = Append(@, s),
                                        ![h].ret = Return("True"),
                                        ![h].pc = "idle"]
         [] CheckStatus(s) = "failure" ->
              /\ calls' = [calls EXCEPT ![h].seen = Append(@, s),
                                        ![h].ret = Return("False"),
                                        ![h].pc = "idle"]
              /\ UNCHANGED frames
         [] CheckStatus(s) = "KeyError" ->
              /\ calls' = [calls EXCEPT ![h].seen = Append(@, s),
                                        ![h].ret = Raise("KeyError"),
                                        ![h].pc = "idle"]
              /\ UNCHANGED frames
         [] OTHER ->
              /\ frames' = [frames EXCEPT ![Frame(h)].attempt = @ + 1]
              /\ calls' = [calls EXCEPT ![h].seen = Append(@, s)]
    /\ UNCHANGED concFrame

\* conversion.py:57, 71-73  the loop condition of the call on h fails
ConcReturn(h) ==
    /\ calls[h].pc = "polling"
    /\ ~LoopCondition(frames[Frame(h)].attempt, frames[Frame(h)].timeout,
                      frames[Frame(h)].completed)
    /\ calls' = [calls EXCEPT
           ![h].ret = Return(IF frames[Frame(h)].completed
                             THEN "True" ELSE "False"),
           ![h].pc = "idle"]
    /\ UNCHANGED <<concFrame, frames>>

ConcNext ==
    \/ \E h \in Handles, t \in ConcTimeouts : ConcCall(h, t)
    \/ \E h \in Handles, s \in ConcStatuses : ConcPoll(h, s)
    \/ \E h \in Handles : ConcReturn(h)

ConcInit == Init /\ conversion_formats = {"docx"} /\ api_url = ProductionApi

ConcSpec == ConcInit /\ [][ConcNext]_vars

\* ------------------------------- the four operations of one job handle

\* The operations of a handle one after another, in any order, on a job
\* asked for docx: few inputs, but each way every operation can end.
HandleTimeouts == [kind : {"int"}, val : {0, 2}]
HandleStatuses ==
    {RepeatStatus,
     [status |-> "processing", has_map |-> FALSE, conversion_status |-> EmptyMap]}

HandleNext ==
    \/ \E t \in HandleTimeouts : WaitCall(t)
    \/ \E g \in GetOutcomes, s \in HandleStatuses : Poll(g, s)
    \/ WaitTimeout
    \/ DownloadStatusFails("docx", <<>>)
    \/ \E s \in HandleStatuses : DownloadCall("docx", <<>>, s)
    \/ WriteChunk(<<1>>)
    \/ WriteRaises
    \/ WriteDone
    \/ \E g \in GetOutcomes, s \in HandleStatuses : StatusCall(g, TRUE, s)
    \/ \E g \in GetOutcomes, s \in HandleStatuses :
           DownloadOutput("docx", g, TRUE, s, <<1>>)

HandleSpec == DownloadInit /\ [][HandleNext]_vars

\* The poller touches no filesystem state and the download none of the
\* poller's, and the other operations keep nothing on the handle or the
\* client, so each is analysed under its own specification (WaitSpec,
\* DownloadSpec, StatusSpec, OutputSpec, ClientSpec); Spec is their
\* interleaving.
Next ==
    WaitNext \/ DownloadNext \/ StatusNext \/ OutputNext \/ ClientNext
        \/ BatchNext \/ ConcNext

Spec == Init /\ [][Next]_vars

\* ------------------------------------- a handle and the job on the server

\* The overall status of the job goes back from 'completed'.
Regresses(a, b) == a.status = "completed" /\ b.status # "completed"

\* The job on the server changes state on its own, never regressing from
\* 'completed'; its per-format map may change in any way.
JobAdvances(s) ==
    /\ ~Regresses(job_state, s)
    /\ job_state' = s
    /\ UNCHANGED <<handleVars, pc, op, ret, waitVars, conversion_status,
                   fetches, artifact_gets, fsVars, format_arg, path_arg,
                   file_path, handle_open, written, write_error, streamed,
                   status_info, downloads, status_calls, status_gets,
                   response, returned, previous, output, clientVars,
                   batchVars, concVars>>

MonotonicTimeouts == [kind : {"int"}, val : {1, 3}]
\* States of the job: overall 'processing' or 'completed' with its one
\* format processing, completed or failed, and overall 'error'.
ServerStates ==
    {s \in JobStates :
        \/ s.status \in {"processing", "completed"}
              /\ DOMAIN s.conversion_status = {"docx"}
        \/ s.status = "error" /\ ~s.has_map}

\* wait_until_complete and conversion_status on one handle, every fetch
\* answered with the state the job is in at that moment.
MonotonicNext ==
    \/ \E s \in ServerStates : JobAdvances(s)
    \/ \E t \in MonotonicTimeouts : job_state # NoStatus /\ WaitCall(t)
    \/ \E g \in GetOutcomes : job_state # NoStatus /\ Poll(g, job_state)
    \/ WaitTimeout
    \/ \E g \in GetOutcomes :
           job_state # NoStatus /\ StatusCall(g, TRUE, job_state)

MonotonicSpec == DownloadInit /\ [][MonotonicNext]_vars

\* ---------------------------------------------------------------- poller claims

\* The call in progress or just ended is wait_until_complete.
InWait == op = "wait_until_complete"
WaitEnded == InWait /\ pc = "idle"
\* The most recent status fetch of the call returned a status (held in
\* conversion_status) rather than raising.
LastFetchReturned == InWait /\ fetches >= 1 /\ ret # Raise("RemoteError")
\* A Python int: an int proper, or a bool (bool is a subclass of int).
IsInteger(t) == t.kind = "int" \/ t.kind = "bool"
PositiveInteger(t) == IsInteger(t) /\ t.val > 0

\* Section 4.1, stopping condition 1, read on the fetched status: overall
\* 'completed' and every per-format status in it 'completed' or 'error'.
SuccessCondition(s) ==
    /\ s.status = "completed"
    /\ \A f \in DOMAIN s.conversion_status :
           s.conversion_status[f] \in {"completed", "error"}
\* Section 4.1, stopping condition 2.
HardFailure(s) == s.status = "error"

\* C1: a timeout that is not an integer or is <= 0 makes wait_until_complete
\* fail with the invalid-argument error (ValueError), and no status fetch
\* has been performed when it fails.
C1_InvalidTimeoutRejected ==
    (InWait /\ (~IsInteger(timeout) \/ timeout.val <= 0)) =>
        (pc = "idle" /\ ret = Raise("ValueError") /\ fetches = 0)
C1_Witness ==
    /\ WaitEnded /\ timeout = [kind |-> "int", val |-> 0]
    /\ ret = Raise("ValueError") /\ fetches = 0

\* C2: with a positive integer timeout, when every fetch returned a status
\* that neither satisfies the success condition nor has overall status
\* 'error', the call performs exactly timeout - 1 fetches and returns False.
C2_TimeoutFetchCount ==
    (/\ WaitEnded /\ PositiveInteger(timeout)
     /\ ret # Raise("RemoteError")
     /\ fetches >= 1 => (~SuccessCondition(conversion_status)
                         /\ ~HardFailure(conversion_status))) =>
        (ret = Return("False") /\ fetches = timeout.val - 1)
C2_Witness ==
    /\ WaitEnded /\ timeout = [kind |-> "int", val |-> 3]
    /\ fetches = 2 /\ ret = Return("False")
    /\ conversion_status.status = "processing"

\* C3: when the k-th fetch is the first whose status satisfies the success
\* condition, the call returns True after exactly k fetches and fetches
\* nothing afterwards.
C3_SuccessStopsWithTrue ==
    (LastFetchReturned /\ SuccessCondition(conversion_status)) =>
        (pc = "idle" /\ ret = Return("True"))

\* C4: a fetch that reports overall status 'error' is the last one: polling
\* stops there and the call returns False, whatever attempts remain.
C4_ErrorStopsWithFalse ==
    (LastFetchReturned /\ HardFailure(conversion_status)) =>
        (pc = "idle" /\ ret = Return("False") /\ ~completed)
C4_Witness ==
    /\ WaitEnded /\ timeout = [kind |-> "int", val |-> 5]
    /\ fetches = 2 /\ sleeps = 1 /\ ret = Return("False")
    /\ conversion_status.status = "error"

\* The success condition as C5 states it: over the formats requested for
\* the job, the handle's conversion_formats.
RequestedSuccess(s) ==
    /\ s.status = "completed"
    /\ \A f \in conversion_formats :
           /\ f \in DOMAIN s.conversion_status
           /\ s.conversion_status[f] \in {"completed", "error"}

\* C5: at each fetch the call returns True exactly when the overall status is
\* 'completed' and every format in the handle's conversion_formats has a
\* per-format status 'completed' or 'error'.
C5_SuccessIffRequestedDone ==
    LastFetchReturned =>
        ((pc = "idle" /\ ret = Return("True"))
            <=> RequestedSuccess(conversion_status))

\* The per-format map mixes 'completed' and 'error' and nothing is pending.
MixedFormats(s) ==
    /\ s.has_map
    /\ \E f \in DOMAIN s.conversion_status : s.conversion_status[f] = "completed"
    /\ \E f \in DOMAIN s.conversion_status : s.conversion_status[f] = "error"
    /\ \A f \in DOMAIN s.conversion_status : s.conversion_status[f] # "processing"
\* C6: partial success is success: an overall 'completed' status whose
\* per-format statuses mix 'completed' and 'error' makes the call return True.
C6_PartialSuccessIsSuccess ==
    (/\ LastFetchReturned
     /\ conversion_status.status = "completed"
     /\ MixedFormats(conversion_status)) =>
        (pc = "idle" /\ ret = Return("True") /\ completed)
C6_Witness ==
    /\ WaitEnded /\ ret = Return("True")
    /\ conversion_status.status = "completed"
    /\ conversion_status.has_map
    /\ conversion_status.conversion_status = [f \in Formats |->
           IF f = "docx" THEN "completed" ELSE "error"]

\* C7: the poller never raises on a job 'error' status, with or without a
\* per-format map in the response: the call ends by returning False.
C7_ErrorNeverRaises ==
    (LastFetchReturned /\ conversion_status.status = "error") =>
        (ret.kind # "raise" /\ (ret.kind = "return" => ret.val = "False"))
C7_Witness ==
    /\ WaitEnded /\ ret = Return("False")
    /\ conversion_status.status = "error" /\ ~conversion_status.has_map

\* -------------------------------------------------------------- download claims

InDownload == op = "download_output_to_local_path"
DownloadReturned == InDownload /\ pc = "idle" /\ ret = Return("file_path")
\* The status s reports format fmt as 'completed'.
FormatCompleted(s, fmt) ==
    /\ s.has_map
    /\ fmt \in DOMAIN s.conversion_status
    /\ s.conversion_status[fmt] = "completed"

\* C8: a download whose fetched status does not report the requested format
\* as 'completed' (processing, error, or not reported at all) fails with
\* ConversionIncompleteError and writes nothing: no directory is created, no
\* file is opened or written.
C8_IncompleteRaisesAndWritesNothing ==
    [][\A fmt \in FormatArgs, path \in Paths, s \in StatusSet :
          (DownloadCall(fmt, path, s) /\ ~FormatCompleted(s, fmt)) =>
              /\ ret' = Raise("ConversionIncompleteError")
              /\ UNCHANGED fsVars
              /\ ~handle_open']_vars

\* C9: a download that returns has created the destination directory with
\* all its parent segments, has written the one file {directory}/{job_id}.{format}
\* and no other, and returns that file's path.
C9_CreatesDirectoryAndOneFile ==
    /\ [](DownloadReturned =>
            /\ file_path = FileKey(path_arg, conversion_id, format_arg)
            /\ files[file_path].exists
            /\ \A n \in 1..Len(path_arg) : SubSeq(path_arg, 1, n) \in dirs)
    /\ [][\A k \in AllKeys : files'[k] # files[k] => k = file_path']_vars
C9_Witness ==
    /\ DownloadReturned /\ downloads = 1
    /\ path_arg = <<"out", "dir">> /\ format_arg = "docx"
    /\ dirs = {<<>>, <<"out">>, <<"out", "dir">>}
    /\ files[FileKey(<<"out", "dir">>, "job", "docx")] =
           [exists |-> TRUE, data |-> <<0, 1>>]
    /\ \A k \in AllKeys :
           k # FileKey(<<"out", "dir">>, "job", "docx") => ~files[k].exists

\* C10: when the write loop raises, after any number of chunks written, the
\* call fails with FilesystemError and returns no file path.
C10_WriteFailureIsFilesystemError ==
    (InDownload /\ write_error) =>
        (pc = "idle" /\ ret = Raise("FilesystemError"))
C10_Witness ==
    /\ InDownload /\ write_error /\ written = 2
    /\ files[file_path] = [exists |-> TRUE, data |-> <<0, 1>>]
    /\ ret = Raise("FilesystemError")

\* C11: the ConversionIncompleteError raised by download_output_to_local_path
\* carries, as status_info, the status response that this call fetched just
\* before raising.
C11_ErrorCarriesFetchedStatus ==
    [][\A fmt \in FormatArgs, path \in Paths, s \in StatusSet :
          (DownloadCall(fmt, path, s) /\ ret' = Raise("ConversionIncompleteError"))
              => status_info' = s]_vars

\* ------------------------------------------ status and raw download claims

InStatus == op = "conversion_status"
InOutput == op = "download_output"

\* C12: conversion_status() always fetches live: n calls have issued exactly n
\* GETs, and a call that returns gives back the body of its own response,
\* never a status seen before.
C12_LiveFetchNoCaching ==
    /\ status_gets = status_calls
    /\ (InStatus /\ ret.kind = "return") =>
           (response.received /\ returned = response.body)

C12_Witness ==
    /\ InStatus /\ ret.kind = "return"
    /\ status_calls >= 2 /\ status_gets = status_calls
    /\ previous # NoStatus /\ previous # returned
    /\ returned = response.body

\* C13: conversion_status() fails with RemoteError whenever the response is
\* not a success (non-2xx); the body of such a response is never returned.
C13_NonSuccessIsRemoteError ==
    (InStatus /\ response.received /\ ~response.ok) => ret = Raise("RemoteError")

C15_RawDownloadOfIncompleteRaises ==
    (InOutput /\ job_state.status \in {"queued", "processing"}
              /\ ~FormatCompleted(job_state, format_arg)
              /\ ret # Raise("RemoteError"))
        => ret = Raise("ConversionIncompleteError")

\* The four typed errors under the names the code gives them: InvalidArgument
\* is ValueError or ValidationError, RemoteError is MathpixClientError (and
\* whatever the transport raises, counted here in the claim's favour).
TypedErrors ==
    {"ValueError", "ValidationError", "MathpixClientError", "RemoteError",
     "ConversionIncompleteError", "FilesystemError"}

\* C16: every public operation ends by returning a result or by raising one
\* of the four typed errors.
C16_OnlyTypedErrors ==
    (pc = "idle" /\ ret.kind = "raise") => ret.val \in TypedErrors

\* ----------------------------------------------------- constructor claims

InPdfNew == op = "pdf_new"
InImageNew == op = "image_new"

\* both file_path and file_url were passed, or neither was
BothOrNeither(a) == (a.file_path = "None") <=> (a.file_url = "None")

\* the production API's check applies to the call (a webhook argument or
\* file_batch_uuid was passed)
ProductionRejects(a) ==
    api_url = ProductionApi /\ (a.webhook \/ a.file_batch_uuid)

NoRequestNoHandle == posts = 0 /\ handles = 0

\* C17, as stated: pdf_new and image_new called with both file_path and
\* file_url, or with neither, fail with ValidationError before any POST and
\* without constructing a handle.
C17_BothOrNeitherIsValidationError ==
    ((InPdfNew \/ InImageNew) /\ BothOrNeither(args)) =>
        (ret = Raise("ValidationError") /\ NoRequestNoHandle)

\* C17, amended: such a call fails before any POST and without constructing
\* a handle; the error is ValidationError, except that pdf_new on the
\* production API with a webhook argument or file_batch_uuid fails with
\* NotImplementedError first.
C17_BothOrNeitherFailsFast ==
    ((InPdfNew \/ InImageNew) /\ BothOrNeither(args)) =>
        /\ NoRequestNoHandle
        /\ ret = Raise(IF InPdfNew /\ ProductionRejects(args)
                       THEN "NotImplementedError" ELSE "ValidationError")

C17_Witness ==
    /\ InPdfNew
    /\ args.file_path = "doc.pdf" /\ args.file_url = "http://host/doc.pdf"
    /\ ret = Raise("ValidationError")
    /\ NoRequestNoHandle

\* C18, as stated: pdf_new called with a file_path that does not name an
\* existing file raises FileNotFoundError, and no POST has been issued.
C18_MissingFileIsFileNotFound ==
    (InPdfNew /\ Truthy(args.file_path) /\ args.file_path \notin ExistingFiles) =>
        (ret = Raise("FileNotFoundError") /\ posts = 0)

\* C18, amended: pdf_new called with a file_path that names no existing
\* file, without file_url and without arguments the production API rejects,
\* raises FileNotFoundError, and no POST has been issued.
C18_MissingFileNotUploaded ==
    (InPdfNew /\ Truthy(args.file_path) /\ args.file_path \notin ExistingFiles
              /\ args.file_url = "None" /\ ~ProductionRejects(args)) =>
        (ret = Raise("FileNotFoundError") /\ NoRequestNoHandle)

C18_Witness ==
    /\ InPdfNew
    /\ args.file_path = "missing.pdf" /\ args.file_url = "None"
    /\ ret = Raise("FileNotFoundError")
    /\ posts = 0

\* C19: on the production API, pdf_new with a webhook argument or a
\* file_batch_uuid, and file_batch_new, raise NotImplementedError before any
\* request, whatever file_path and file_url are.
C19_ProductionRejectsFirst ==
    /\ (InPdfNew /\ ProductionRejects(args)) =>
           (ret = Raise("NotImplementedError") /\ NoRequestNoHandle)
    /\ (op = "file_batch_new" /\ api_url = ProductionApi) =>
           (ret = Raise("NotImplementedError") /\ NoRequestNoHandle)

C19_Witness ==
    /\ InPdfNew /\ api_url = ProductionApi
    /\ args.webhook /\ BothOrNeither(args)
    /\ ret = Raise("NotImplementedError")
    /\ posts = 0

ValidThreshold(th) == ~th.given \/ (0 <= th.val /\ th.val <= 1)

ValidImageArgs(a) ==
    /\ ~BothOrNeither(a)
    /\ (~a.formats.given \/ Len(a.formats.val) = 1)
    /\ ValidThreshold(a.confidence_threshold)
    /\ ValidThreshold(a.confidence_rate_threshold)
    /\ ValidThreshold(a.auto_rotate_confidence_threshold)

\* C20: image_new called with exactly one of file_path/file_url, thresholds
\* within [0, 1] and formats omitted or a single format returns a new Image
\* without raising.
C20_ValidImageNewReturnsImage ==
    (InImageNew /\ ValidImageArgs(args)) =>
        (ret = Return("Image") /\ handles = 1)

\* ---------------------------------------------------- enumeration claims

InBatch == op = "process_pdf_folder"
BatchDone == InBatch /\ pc = "idle" /\ ret = Return("None")

\* how often member id occurs in the sequence s
Count(s, id) == Cardinality({i \in DOMAIN s : s[i] = id})
IsMember(id) == \E i \in DOMAIN members : members[i] = id

\* C21: the caller's loop visits each member job exactly once across the
\* pagination (never twice on the way, all of them when it ends), and it
\* ends with the page on which the server reports has_more = false: no
\* listing call follows that page.
C21_EachMemberVisitedOnce ==
    /\ [](InBatch => \A id \in MemberIds : Count(visited, id) <= 1)
    /\ [](BatchDone => /\ \A id \in MemberIds :
                              Count(visited, id) = (IF IsMember(id) THEN 1 ELSE 0)
                      /\ ~files_list.has_more)
    /\ [][(pc = "items" /\ files_list.files = <<>> /\ ~files_list.has_more)
            => (pc' = "idle" /\ ret' = Return("None"))]_vars

C21_Witness ==
    /\ BatchDone
    /\ Len(members) = MaxMembers
    /\ cursor > 0
    /\ visited = members

\* ----------------------------------------------------- concurrency claims

\* What wait_until_complete(t) does when it runs alone and its job reports
\* the statuses hist in this order: the outcome and the number of fetches,
\* from attempt a with n fetches made (outcome NoRet: hist is used up).
RECURSIVE AloneFrom(_, _, _, _)
AloneFrom(t, hist, a, n) ==
    IF ~(a < t.val) THEN [ret |-> Return("False"), fetches |-> n]
    ELSE IF n >= Len(hist) THEN [ret |-> NoRet, fetches |-> n]
    ELSE LET s == hist[n + 1] IN
         IF s.status = "completed"
         THEN IF ~s.has_map THEN [ret |-> Raise("KeyError"), fetches |-> n + 1]
              ELSE IF \A f \in DOMAIN s.conversion_status :
                          s.conversion_status[f] \in {"completed", "error"}
                   THEN [ret |-> Return("True"), fetches |-> n + 1]
                   ELSE AloneFrom(t, hist, a + 1, n + 1)
         ELSE IF s.status = "error"
              THEN [ret |-> Return("False"), fetches |-> n + 1]
              ELSE AloneFrom(t, hist, a + 1, n + 1)

RunAlone(t, hist) ==
    IF t.val <= 0 THEN [ret |-> Raise("ValueError"), fetches |-> 0]
    ELSE AloneFrom(t, hist, 1, 0)

ConcEnded(h) == calls[h].pc = "idle" /\ calls[h].ret # NoRet

\* C22: two wait_until_complete calls running at the same time on two
\* handles do not disturb each other: under every interleaving each call's
\* outcome and number of status fetches are those of the same call run alone
\* against the statuses its own job reported.
C22_ConcurrentPollersIndependent ==
    \A h \in Handles :
        ConcEnded(h) =>
            /\ calls[h].ret = RunAlone(calls[h].timeout, calls[h].seen).ret
            /\ Len(calls[h].seen) =
                   RunAlone(calls[h].timeout, calls[h].seen).fetches

C22_Witness ==
    /\ ConcEnded(1) /\ calls[1].ret = Return("True") /\ Len(calls[1].seen) = 2
    /\ calls[2].pc = "polling" /\ Len(calls[2].seen) = 1
    /\ calls[2].timeout.val = MaxConcTimeout

\* C23: the destination file handle is released on every exit path of
\* download_output_to_local_path: once the call has returned or raised, also
\* by an exception in the middle of the chunk stream, the file is closed.
C23_HandleReleasedOnExit ==
    (InDownload /\ pc = "idle") => ~handle_open

C23_Witness ==
    /\ InDownload /\ pc = "idle"
    /\ write_error /\ written = 1
    /\ files[file_path].exists
    /\ ~handle_open

\* the files that exist
Existing == {k \in AllKeys : files[k].exists}

\* C24: after any sequence of successful downloads of the same job, format
\* and directory, exactly one file {directory}/{job_id}.{format} exists and
\* holds exactly the bytes of the most recent download.
C24_RepeatDownloadOverwrites ==
    DownloadReturned =>
        /\ Existing = {FileKey(path_arg, conversion_id, format_arg)}
        /\ files[FileKey(path_arg, conversion_id, format_arg)].data = streamed

C24_Witness ==
    /\ DownloadReturned /\ downloads = MaxDownloads
    /\ Existing = {FileKey(<<"out", "dir">>, "job", "docx")}
    /\ streamed = <<1>>
    /\ files[FileKey(<<"out", "dir">>, "job", "docx")].data = <<1>>

\* C25: whatever bytes the artifact has and however the transport splits
\* them into chunks, empty chunks included, the file a successful download
\* produces holds exactly those bytes in their order.
C25_ChunkedWriteRoundTrip ==
    DownloadReturned => files[file_path].data = streamed

C25_Witness ==
    /\ DownloadReturned /\ written = MaxChunks
    /\ streamed = <<0, 1>>
    /\ files[file_path].data = <<0, 1>>

\* ---------------------------------------------------------- frame claims

HandleOps ==
    {"wait_until_complete", "conversion_status", "download_output",
     "download_output_to_local_path"}

\* C26: no operation of a job handle, whether it returns or raises, changes
\* the handle's conversion_id, conversion_formats or auth.
C26_HandleNeverMutated ==
    [][op' \in HandleOps =>
          UNCHANGED <<conversion_id, conversion_formats, api_url>>]_vars

C26_Witness ==
    /\ op = "conversion_status" /\ ret = Return("JobStatus")
    /\ status_calls = MaxCalls /\ downloads = MaxDownloads
    /\ completed
    /\ conversion_id = "job" /\ conversion_formats = {"docx"}
    /\ api_url = ProductionApi

\* ---------------------------------------------- more poller claims

\* C27: when wait_until_complete returns True the status it fetched last
\* has overall status 'completed'; and with a server whose overall status
\* never regresses from 'completed', every status conversion_status fetches
\* after a True return reports 'completed'.
C27_TrueMeansCompleted ==
    /\ (WaitEnded /\ ret = Return("True")) =>
           (fetches >= 1 /\ conversion_status.status = "completed")
    /\ (completed /\ op = "conversion_status" /\ ret = Return("JobStatus")) =>
           returned.status = "completed"
C27_Witness ==
    /\ completed /\ op = "conversion_status" /\ ret = Return("JobStatus")
    /\ status_calls = 2 /\ previous.status = "completed"
    /\ returned.status = "completed" /\ returned # previous
    /\ conversion_status # returned

\* C28: for every positive integer timeout and every sequence of statuses
\* the fetches return, wait_until_complete has performed at most timeout - 1
\* status fetches at any moment, and the call ends.
C28_TerminatesWithinBudget ==
    /\ [](InWait /\ PositiveInteger(timeout) => fetches <= timeout.val - 1)
    /\ (InWait /\ pc = "polling") ~> WaitEnded
C28_Witness ==
    /\ WaitEnded /\ timeout = [kind |-> "int", val |-> MaxTimeout]
    /\ fetches = MaxTimeout - 1 /\ ret = Return("True")

\* C29: when a status fetch of the polling loop fails with a transport
\* error, the call ends there by raising that error: it returns neither
\* True nor False, and no fetch follows the failed one.
C29_FetchFailureSurfaces ==
    (InWait /\ fetches >= 1 /\ ~response.received) =>
        (pc = "idle" /\ ret = Raise("RemoteError"))
C29_Witness ==
    /\ WaitEnded /\ ret = Raise("RemoteError")
    /\ ~response.received
    /\ timeout = [kind |-> "int", val |-> MaxTimeout]
    /\ fetches = 2 /\ attempt = 2
    /\ conversion_status.status = "processing"

\* C30: wait_until_complete(timeout=1) performs no status fetch and returns
\* False, whatever state the job is in on the server, 'completed' included.
C30_TimeoutOneNeverFetches ==
    (InWait /\ PositiveInteger(timeout) /\ timeout.val = 1) =>
        /\ fetches = 0
        /\ pc = "idle" => ret = Return("False")
C30_Witness ==
    /\ WaitEnded /\ timeout = [kind |-> "int", val |-> 1]
    /\ fetches = 0 /\ ret = Return("False")
    /\ job_state = RepeatStatus

\* C31: in wait_until_complete a sleep follows every fetch that satisfies
\* no stopping condition and none follows a fetch that satisfies one: when
\* the k-th fetch reports success or hard failure the call has slept k - 1
\* times, and a call that times out has slept timeout - 1 times.
C31_SleepAfterEachContinuingFetch ==
    /\ (LastFetchReturned /\ (SuccessCondition(conversion_status)
                                 \/ HardFailure(conversion_status))) =>
            sleeps = fetches - 1
    /\ (LastFetchReturned /\ ~SuccessCondition(conversion_status)
                          /\ ~HardFailure(conversion_status)) =>
            sleeps = fetches
    /\ (/\ WaitEnded /\ PositiveInteger(timeout) /\ ret = Return("False")
        /\ fetches >= 1 => ~HardFailure(conversion_status)) =>
            sleeps = timeout.val - 1
C31_Witness ==
    /\ WaitEnded /\ timeout = [kind |-> "int", val |-> MaxTimeout]
    /\ ret = Return("True") /\ fetches = 3 /\ sleeps = 2
\* An argument that names something: neither None nor the empty string.
Usable(x) == Truthy(x)
ExactlyOneUsable(a) ==
    (Usable(a.file_path) /\ ~Usable(a.file_url))
        \/ (~Usable(a.file_path) /\ Usable(a.file_url))

\* C32: pdf_new issues its POST only when exactly one of file_path and
\* file_url is a usable (non-empty) value; a call with file_path = '' and
\* no file_url fails with ValidationError and issues no POST.
C32_PostOnlyWithOneUsableSource ==
    /\ (InPdfNew /\ posts >= 1) => ExactlyOneUsable(args)
    /\ (InPdfNew /\ args.file_path = "" /\ args.file_url = "None") =>
           (ret = Raise("ValidationError") /\ posts = 0)

====
